---- MODULE Spec2Model ----
(***************************************************************************)
(* Rate aggregation engine of my-shipping-rates-app: the orchestrator      *)
(* RateService (src/services/rate-service.ts), the fee decorators          *)
(* (src/services/fee-decorators/decorator.ts), the configuration lookup    *)
(* (src/config/carrier-config.ts), the carrier adapters                    *)
(* (src/adapters/carrier-adapters) and the form hook                       *)
(* (src/hooks/usePackageForm.ts).                                          *)
(*                                                                         *)
(* Money is counted in cents, delivery dates in whole days.                *)
(***************************************************************************)
EXTENDS Integers, Sequences, FiniteSets, TLC

(***************************************************************************)
(* Bounds of the model.                                                    *)
(***************************************************************************)
\* fetchAllRates calls made on the one RateService instance
MaxCalls == 2
\* length of an explicit request.carriers list
MaxRequested == 2

Calls == 1..MaxCalls

(***************************************************************************)
(* Carriers and the configuration lookup.                                  *)
(***************************************************************************)
\* type CarrierName of the domain model
CarrierNames == {"USPS", "FedEx", "UPS", "DHL"}

\* the keys of the object loadConfiguration returns
ConfiguredCarriers == {"USPS", "FedEx", "UPS"}

\* isCarrierConfigured that answers yes for every carrier name
isCarrierConfiguredAlways(carrier) == carrier \in CarrierNames

\* CarrierConfigManager.isCarrierConfigured: carrier in this.config
isCarrierConfigured(carrier) == carrier \in ConfiguredCarriers

\* the literal the orchestrator falls back to when request.carriers is absent
DefaultCarriers == <<"USPS", "FedEx", "UPS">>

\* request.carriers left undefined by the caller
NoCarriers == <<"undefined">>

Range(seq) == {seq[i] : i \in 1..Len(seq)}

\* EffectiveCarriers without the filter on configured carriers
EffectiveCarriersUnfiltered(requested) ==
  IF requested # NoCarriers THEN requested ELSE DefaultCarriers

\* lines 41-44 of fetchAllRates: request.carriers || default, then the filter
EffectiveCarriers(requested) ==
  LET carriers == IF requested # NoCarriers THEN requested ELSE DefaultCarriers
  IN  SelectSeq(carriers, isCarrierConfigured)

(***************************************************************************)
(* Fees and rate components (decorator.ts).                                *)
(***************************************************************************)
Fee(type, amount, description) ==
  [type |-> type, amount |-> amount, description |-> description]

BaseRate(baseAmount, serviceName) ==
  [kind |-> "base", baseAmount |-> baseAmount, serviceName |-> serviceName]

Max(a, b) == IF a >= b THEN a ELSE b

\* calculateInsurance without the minimum of 2.50
calculateInsuranceNoFloor(declaredValue) ==
  Fee("insurance", (declaredValue + 50) \div 100, "Declared Value Insurance")

\* InsuranceDecorator.calculateInsurance: max(declaredValue / 100, 2.5),
\* toFixed(2); declaredValue is in cents here, so is the amount
calculateInsurance(declaredValue) ==
  Fee("insurance", Max((declaredValue + 50) \div 100, 250), "Declared Value Insurance")

InsuranceDecorator(component, declaredValue) ==
  [kind |-> "decorator", component |-> component, fee |-> calculateInsurance(declaredValue)]

\* SignatureDecorator with a fee of 5.00
SignatureDecoratorFlatFive(component) ==
  [kind |-> "decorator", component |-> component,
   fee |-> Fee("signature", 500, "Signature Required")]

SignatureDecorator(component) ==
  [kind |-> "decorator", component |-> component,
   fee |-> Fee("signature", 550, "Signature Required")]

FragileHandlingDecorator(component) ==
  [kind |-> "decorator", component |-> component,
   fee |-> Fee("other", 1000, "Fragile Handling")]

SaturdayDeliveryDecorator(component) ==
  [kind |-> "decorator", component |-> component,
   fee |-> Fee("saturdayDelivery", 1500, "Saturday Delivery")]

RECURSIVE getCost(_)
\* getCost of a decorator that does not override RateDecorator.getCost
getCostForwarded(component) ==
  IF component.kind = "base" THEN component.baseAmount
  ELSE getCost(component.component)

getCost(component) ==
  IF component.kind = "base" THEN component.baseAmount
  ELSE getCost(component.component) + component.fee.amount

RECURSIVE getFees(_)
getFees(component) ==
  IF component.kind = "base" THEN <<>>
  ELSE Append(getFees(component.component), component.fee)

RECURSIVE getDescription(_)
getDescription(component) ==
  IF component.kind = "base" THEN component.serviceName
  ELSE getDescription(component.component)

\* the options the decorators read
\* (declaredValue is optional: hasDeclaredValue tells whether it is defined)
Options(hasValue, value, signature, fragile, saturday) ==
  [hasDeclaredValue |-> hasValue, declaredValue |-> value,
   signatureRequired |-> signature, fragileHandling |-> fragile,
   saturdayDeliveryRequired |-> saturday]

\* applyFees that wraps for the signature before the insurance
applyFeesSignatureFirst(baseRate, options) ==
  LET d1 == IF options.signatureRequired THEN SignatureDecorator(baseRate) ELSE baseRate
      d2 == IF options.hasDeclaredValue /\ options.declaredValue # 0
               /\ options.declaredValue > 0
            THEN InsuranceDecorator(d1, options.declaredValue) ELSE d1
      d3 == IF options.fragileHandling THEN FragileHandlingDecorator(d2) ELSE d2
      d4 == IF options.saturdayDeliveryRequired THEN SaturdayDeliveryDecorator(d3) ELSE d3
  IN  d4

applyFees(baseRate, options) ==
  LET d1 == IF options.hasDeclaredValue /\ options.declaredValue # 0
               /\ options.declaredValue > 0
            THEN InsuranceDecorator(baseRate, options.declaredValue) ELSE baseRate
      d2 == IF options.signatureRequired THEN SignatureDecorator(d1) ELSE d1
      d3 == IF options.fragileHandling THEN FragileHandlingDecorator(d2) ELSE d2
      d4 == IF options.saturdayDeliveryRequired THEN SaturdayDeliveryDecorator(d3) ELSE d3
  IN  d4

(***************************************************************************)
(* Canonical rates and what an adapter can answer.                         *)
(***************************************************************************)
ShippingRate(carrier, serviceName, baseRate, additionalFees, totalCost, date) ==
  [id |-> <<carrier, serviceName>>, carrier |-> carrier, serviceName |-> serviceName,
   baseRate |-> baseRate, additionalFees |-> additionalFees, totalCost |-> totalCost,
   estimatedDeliveryDate |-> date]

\* the rate lists a fetchRates invocation of the carrier's adapter may resolve to
\* (USPS and UPS attach no fees and report total = base; FedEx maps its
\* surcharges to fees and reports the net charge; UPS may answer no rate)
AdapterRates(carrier) ==
  CASE carrier = "FedEx" ->
         { << ShippingRate(carrier, "Ground", 1000,
                           <<Fee("fuel", 50, "Fuel Surcharge")>>, 1050, 2) >> }
    [] carrier = "UPS" ->
         { <<>>,
           << ShippingRate(carrier, "Ground", 1000, <<>>, 1000, 5),
              ShippingRate(carrier, "Next Day Air", 1000, <<>>, 1000, 1) >> }
    [] OTHER ->
         { << ShippingRate(carrier, "Ground Advantage", 500, <<>>, 500, 5),
              ShippingRate(carrier, "Priority Mail", 1000, <<>>, 1000, 2) >> }

\* applyAdditionalFees that leaves the total the adapter reported
applyAdditionalFeesKeepTotal(rate, options) ==
  LET baseRate  == BaseRate(rate.baseRate, rate.serviceName)
      decorated == applyFees(baseRate, options)
  IN  [rate EXCEPT !.additionalFees = getFees(decorated)]

\* RateService.applyAdditionalFees
applyAdditionalFees(rate, options) ==
  LET baseRate  == BaseRate(rate.baseRate, rate.serviceName)
      decorated == applyFees(baseRate, options)
  IN  [rate EXCEPT !.additionalFees = getFees(decorated),
                   !.totalCost = getCost(decorated)]

\* rates.map((rate) => this.applyAdditionalFees(rate, options))
DecorateAll(rates, options) ==
  [i \in 1..Len(rates) |-> applyAdditionalFees(rates[i], options)]

(***************************************************************************)
(* Thrown values and their classification.                                 *)
(***************************************************************************)
\* class CarrierError extends Error
CarrierError(carrier, message, recoverable) ==
  [kind |-> "CarrierError", carrier |-> carrier, message |-> message,
   recoverable |-> recoverable]

\* a plain Error
Error(message) ==
  [kind |-> "Error", carrier |-> "", message |-> message, recoverable |-> FALSE]

\* a thrown value that is not an Error at all
NonError == [kind |-> "NonError", carrier |-> "", message |-> "", recoverable |-> FALSE]

NoReason == [kind |-> "none", carrier |-> "", message |-> "", recoverable |-> FALSE]

\* the keywords error.message.toLowerCase() contains
LowerCaseIncludes(message) ==
  CASE message = "Request timeout"        -> {"timeout"}
    [] message = "connect ECONNREFUSED"   -> {"econnrefused"}
    [] message = "getaddrinfo ENOTFOUND"  -> {"enotfound"}
    [] message = "Network request failed" -> {"network"}
    [] OTHER                              -> {}

\* RateService.isRecoverableError
isRecoverableError(error) ==
  IF error.kind = "CarrierError" THEN error.recoverable
  ELSE IF error.kind = "Error"
       THEN LowerCaseIncludes(error.message) \cap
              {"timeout", "econnrefused", "enotfound", "network"} # {}
       ELSE TRUE

\* what a fetchRates invocation of the carrier's adapter may reject with
AdapterFailures(carrier) ==
  { CarrierError(carrier, "Request timeout", TRUE),
    CarrierError(carrier, "Invalid destination", FALSE),
    Error("Request timeout"),
    Error("API Error"),
    NonError }

maxRetries == 3

\* the Error retryWithBackoff throws when attempt >= maxRetries
RetriesExhausted(carrier) ==
  Error("Failed to fetch rates from " \o carrier \o " after " \o ToString(maxRetries) \o " retries")

(***************************************************************************)
(* Promises.                                                               *)
(***************************************************************************)
Pending == [status |-> "pending", raw |-> <<>>, value |-> <<>>, reason |-> NoReason]

Fulfilled(raw, value) ==
  [status |-> "fulfilled", raw |-> raw, value |-> value, reason |-> NoReason]

Rejected(reason) ==
  [status |-> "rejected", raw |-> <<>>, value |-> <<>>, reason |-> reason]

\* ThenTagged without the onRejected handler: a rejection passes through
ThenTaggedNoRejectionHandler(p, carrier) ==
  [status |-> p.status,
   value  |-> [status |-> p.status, value |-> p.value, reason |-> p.reason,
               carrier |-> carrier]]

\* fetchCarrierRate(...).then(onFulfilled, onRejected) of fetchAllRates: the
\* promise it makes is fulfilled with a tagged record whichever way p settles
ThenTagged(p, carrier) ==
  [status |-> IF p.status = "pending" THEN "pending" ELSE "fulfilled",
   value  |-> [status |-> p.status, value |-> p.value, reason |-> p.reason,
               carrier |-> carrier]]

\* PromiseAll that settles as soon as one promise has settled
PromiseAllFirstSettled(promises) ==
  IF \E i \in 1..Len(promises) : promises[i].status = "rejected"
  THEN [status |-> "rejected"]
  ELSE IF promises = <<>> \/ \E i \in 1..Len(promises) : promises[i].status = "fulfilled"
       THEN [status |-> "fulfilled",
             value  |-> [i \in 1..Len(promises) |-> promises[i].value]]
       ELSE [status |-> "pending"]

\* Promise.all: rejects with the first rejection, is fulfilled with the list of
\* values once every promise is fulfilled
PromiseAll(promises) ==
  IF \E i \in 1..Len(promises) : promises[i].status = "rejected"
  THEN [status |-> "rejected"]
  ELSE IF \A i \in 1..Len(promises) : promises[i].status = "fulfilled"
       THEN [status |-> "fulfilled",
             value  |-> [i \in 1..Len(promises) |-> promises[i].value]]
       ELSE [status |-> "pending"]

(***************************************************************************)
(* Merging and sorting the settled results.                                *)
(***************************************************************************)
\* what a run of push(...items) calls leaves in an array that started empty
RECURSIVE Pushed(_)
Pushed(lists) ==
  IF lists = <<>> THEN <<>> ELSE Head(lists) \o Pushed(Tail(lists))

\* MergeRates that keeps the rates only when no carrier failed
MergeRatesAllOrNothing(results) ==
  IF \E i \in 1..Len(results) : results[i].status # "fulfilled" THEN <<>>
  ELSE Pushed([i \in 1..Len(results) |-> results[i].value])

\* results.forEach, fulfilled branch: rates.push(...result.value)
MergeRates(results) ==
  Pushed([i \in 1..Len(results) |->
            IF results[i].status = "fulfilled" THEN results[i].value ELSE <<>>])

\* the entry errors.push makes for one rejected result
ErrorEntry(result) ==
  LET error == result.reason IN
  IF error.kind = "CarrierError"
  THEN [carrier |-> error.carrier, message |-> error.message,
        recoverable |-> error.recoverable]
  ELSE [carrier |-> result.carrier,
        message |-> IF error.kind = "Error" THEN error.message ELSE "Unknown error",
        recoverable |-> TRUE]

\* MergeErrors without the branch for errors that are no CarrierError
MergeErrorsCarrierErrorsOnly(results) ==
  Pushed([i \in 1..Len(results) |->
            IF results[i].status # "fulfilled" /\ results[i].reason.kind = "CarrierError"
            THEN <<ErrorEntry(results[i])>> ELSE <<>>])

\* results.forEach, else branch: errors.push(entry)
MergeErrors(results) ==
  Pushed([i \in 1..Len(results) |->
            IF results[i].status = "fulfilled" THEN <<>> ELSE <<ErrorEntry(results[i])>>])

\* compareRates without the tie-break on the delivery date
compareRatesCostOnly(a, b) == a.totalCost - b.totalCost

\* the comparator of sortRates
compareRates(a, b) ==
  LET costDiff == a.totalCost - b.totalCost IN
  IF costDiff # 0 THEN costDiff
  ELSE a.estimatedDeliveryDate - b.estimatedDeliveryDate

\* one step of the stable sort: x goes behind every element not greater than it
RECURSIVE InsertRate(_, _)
\* InsertRate that puts x before the elements equal to it
InsertRateBeforeEqual(sorted, x) ==
  IF sorted = <<>> THEN <<x>>
  ELSE IF compareRates(Head(sorted), x) < 0
       THEN <<Head(sorted)>> \o InsertRate(Tail(sorted), x)
       ELSE <<x>> \o sorted

InsertRate(sorted, x) ==
  IF sorted = <<>> THEN <<x>>
  ELSE IF compareRates(Head(sorted), x) <= 0
       THEN <<Head(sorted)>> \o InsertRate(Tail(sorted), x)
       ELSE <<x>> \o sorted

\* RateService.sortRates: [...rates].sort(comparator), a stable sort
RECURSIVE sortRates(_)
sortRates(rates) ==
  IF rates = <<>> THEN <<>>
  ELSE InsertRate(sortRates(SubSeq(rates, 1, Len(rates) - 1)), rates[Len(rates)])

(***************************************************************************)
(* The multi-step form (hooks/usePackageForm.ts) and its validation chains *)
(* (services/validators).  A field that an object does not have is a field *)
(* outside the record's domain.                                            *)
(***************************************************************************)
\* the calls of one event handler, made before React renders again
MaxBatched == 2

ValidationError(field, code) == [field |-> field, code |-> code]

\* { ...prev, ...partial }
Spread(prev, partial) ==
  [f \in DOMAIN prev \cup DOMAIN partial |-> IF f \in DOMAIN partial THEN partial[f] ELSE prev[f]]

\* !data.field || data.field.trim() === ''
Blank(data, field) == field \notin DOMAIN data \/ data[field] \in {"", " "}

\* String.prototype.toUpperCase on the country and state codes in use
toUpperCase(s) ==
  CASE s = "us" -> "US"
    [] s = "gb" -> "GB"
    [] s = "il" -> "IL"
    [] OTHER -> s

\* the postal codes in use that /^\d{5}(-\d{4})?$/ accepts
usZipRegex == {"62701", "10001-1234"}

\* the postal codes in use that /^[A-Z]{1,2}\d[A-Z\d]?\s?\d[A-Z]{2}$/i accepts
ukPostalRegex == {"SW1A 1AA"}

\* the state codes in use that StateCodeValidator.usStates holds
usStates == {"IL", "NY", "CA"}

ukRegions == {"England", "Scotland", "Wales", "Northern Ireland"}

RequiredAddressFieldsValidator(data) ==
  (IF Blank(data, "street1")
     THEN <<ValidationError("street1", "ADDRESS_STREET_REQUIRED")>> ELSE <<>>)
  \o (IF Blank(data, "city")
        THEN <<ValidationError("city", "ADDRESS_CITY_REQUIRED")>> ELSE <<>>)
  \o (IF Blank(data, "state")
        THEN <<ValidationError("state", "ADDRESS_STATE_REQUIRED")>> ELSE <<>>)
  \o (IF Blank(data, "postalCode")
        THEN <<ValidationError("postalCode", "ADDRESS_POSTAL_CODE_REQUIRED")>> ELSE <<>>)
  \o (IF Blank(data, "country")
        THEN <<ValidationError("country", "ADDRESS_COUNTRY_REQUIRED")>> ELSE <<>>)

PostalCodeFormatValidator(data) ==
  LET country == toUpperCase(data.country)
  IN  (IF country \in {"US", "USA"} /\ data.postalCode \notin usZipRegex
         THEN <<ValidationError("postalCode", "INVALID_US_POSTAL_CODE")>> ELSE <<>>)
      \o (IF country \in {"GB", "UK"} /\ data.postalCode \notin ukPostalRegex
            THEN <<ValidationError("postalCode", "INVALID_UK_POSTAL_CODE")>> ELSE <<>>)

StateCodeValidator(data) ==
  LET country == toUpperCase(data.country)
  IN  IF country \in {"US", "USA"}
        THEN IF toUpperCase(data.state) \notin usStates
               THEN <<ValidationError("state", "INVALID_US_STATE")>> ELSE <<>>
        ELSE IF country = "GB" /\ data.state \notin ukRegions
               THEN <<ValidationError("state", "INVALID_UK_REGION")>> ELSE <<>>

DimensionsValidator(data) ==
  LET length == data.dimensions.length
      width == data.dimensions.width
      height == data.dimensions.height
      unit == data.dimensions.unit
      girth == length + 2 * (width + height)
  IN  (IF length <= 0
         THEN <<ValidationError("length", "INVALID_DIMENSION_LENGTH")>> ELSE <<>>)
      \o (IF width <= 0
            THEN <<ValidationError("width", "INVALID_DIMENSION_WIDTH")>> ELSE <<>>)
      \o (IF height <= 0
            THEN <<ValidationError("height", "INVALID_DIMENSION_HEIGHT")>> ELSE <<>>)
      \o (IF (unit = "in" /\ girth >= 165) \/ (unit = "cm" /\ girth >= 420)
            THEN <<ValidationError("dimensions", "DIMENSIONS_EXCEED_LIMIT")>> ELSE <<>>)

\* value * 2.20462 > 150 is compared in hundred-thousandths of a pound
WeightValidator(data) ==
  LET value == data.weight.value
      weightInLbs == IF data.weight.unit = "lbs" THEN value * 100000 ELSE value * 220462
  IN  (IF value <= 0 THEN <<ValidationError("weight", "INVALID_WEIGHT")>> ELSE <<>>)
      \o (IF weightInLbs > 150 * 100000
            THEN <<ValidationError("weight", "WEIGHT_EXCEEDS_LIMIT")>> ELSE <<>>)

DeclaredValueValidator(data) ==
  IF "declaredValue" \in DOMAIN data /\ data.declaredValue < 0
    THEN <<ValidationError("declaredValue", "INVALID_DECLARED_VALUE")>> ELSE <<>>

\* BaseValidator.validate along the chain: the errors of the first validator
\* that fails, none when every validator passes
createAddressValidationChain(data) ==
  IF RequiredAddressFieldsValidator(data) # <<>> THEN RequiredAddressFieldsValidator(data)
  ELSE IF PostalCodeFormatValidator(data) # <<>> THEN PostalCodeFormatValidator(data)
  ELSE StateCodeValidator(data)

createPackageValidationChain(data) ==
  IF DimensionsValidator(data) # <<>> THEN DimensionsValidator(data)
  ELSE IF WeightValidator(data) # <<>> THEN WeightValidator(data)
  ELSE DeclaredValueValidator(data)

\* the fields of the form state that the step functions read or write
initialFormState ==
  [currentStep |-> 1,
   package |-> [dimensions |-> [length |-> 0, width |-> 0, height |-> 0, unit |-> "in"],
                weight |-> [value |-> 0, unit |-> "lbs"],
                type |-> "box"],
   originAddress |-> [country |-> "US"],
   destinationAddress |-> [country |-> "US"],
   stepErrors |-> [packageStep |-> <<>>, addressStep |-> <<>>, optionsStep |-> <<>>]]

\* what validateCurrentStep and nextStep read of the `state` of their render
Closure(state) ==
  [currentStep |-> state.currentStep, package |-> state.package,
   originAddress |-> state.originAddress, destinationAddress |-> state.destinationAddress]

\* no call of a step function yet
NoFormCall == [op |-> "none"]

(***************************************************************************)
(* State.                                                                  *)
(***************************************************************************)
VARIABLES
  callState,   \* per call: "idle", "awaiting" (at await Promise.all), "returned", "raised"
  request,     \* per call: the carriers and the options the caller passed
  carriers,    \* per call: the local `carriers` after the filter
  pc,          \* per call and carrier: where the carrier's operation stands
  stack,       \* per call and carrier: attempt of each open retryWithBackoff chain
  fetches,     \* per call and carrier: adapter.fetchRates invocations made
  result,      \* per call and carrier: the promise fetchCarrierRate returned
  retryMap,    \* RateService.retryMap of the instance
  waits,       \* per call and carrier: the backoff waits made, in milliseconds
  response,    \* per call: the RateResponse returned
  heap,        \* the RateComponent objects constructed so far, by reference
  call,        \* the last operation on a rate component, its arguments and result
  fetched,     \* the last fetchRates of a carrier adapter: the API outcome, the promise
  formState,   \* usePackageForm: the state with every queued update applied
  rendered,    \* usePackageForm: what the callbacks read of the last render's state
  batched,     \* usePackageForm: the calls made since the last render
  formCall     \* usePackageForm: the last call of a step function and what it returned

vars == <<callState, request, carriers, pc, stack, fetches, result, retryMap, response,
          waits, heap, call, fetched, formState, rendered, batched, formCall>>

\* the variables of the form hook
formVars == <<formState, rendered, batched, formCall>>

\* the variable of the carrier adapters
adapterVars == <<fetched>>

\* the variables of the rate components
componentVars == <<heap, call>>

NoOptions == Options(FALSE, 0, FALSE, FALSE, FALSE)

NoResponse == [rates |-> <<>>, errors |-> <<>>]

\* no fetchRates of an adapter yet
NoFetch == [carrier |-> "none"]

\* no operation on a rate component yet
NoCall == [op |-> "none"]

\* the option values callers pass
OptionChoices ==
  { NoOptions, Options(TRUE, 50000, TRUE, TRUE, TRUE) }

\* the sequences without repetition over a set, up to a length
RECURSIVE Arrangements(_, _)
Arrangements(S, n) ==
  IF n = 0 THEN {<<>>}
  ELSE LET shorter == Arrangements(S, n - 1)
       IN  shorter \cup { Append(s, c) : s \in { t \in shorter : Len(t) = n - 1 },
                                          c \in S }

NoRepetition(seq) == \A i, j \in 1..Len(seq) : i # j => seq[i] # seq[j]

\* the values of request.carriers: absent, or a list of distinct carrier names
RequestedCarriers ==
  {NoCarriers} \cup { s \in Arrangements(CarrierNames, MaxRequested) : NoRepetition(s) }

\* a request that names exactly one carrier
SingleCarrier(requested) == requested \in { <<c>> : c \in CarrierNames }

Dispatched(k) == Range(carriers[k])

Init ==
  /\ callState = [k \in Calls |-> "idle"]
  /\ request = [k \in Calls |-> [carriers |-> NoCarriers, options |-> NoOptions]]
  /\ carriers = [k \in Calls |-> <<>>]
  /\ pc = [k \in Calls |-> [c \in CarrierNames |-> "idle"]]
  /\ stack = [k \in Calls |-> [c \in CarrierNames |-> <<>>]]
  /\ fetches = [k \in Calls |-> [c \in CarrierNames |-> 0]]
  /\ result = [k \in Calls |-> [c \in CarrierNames |-> Pending]]
  /\ retryMap = [c \in CarrierNames |-> 0]
  /\ waits = [k \in Calls |-> [c \in CarrierNames |-> <<>>]]
  /\ response = [k \in Calls |-> NoResponse]
  /\ heap = <<>>
  /\ call = NoCall
  /\ fetched = NoFetch
  /\ formState = initialFormState
  /\ rendered = Closure(initialFormState)
  /\ batched = 0
  /\ formCall = NoFormCall

(***************************************************************************)
(* The retry chain of one carrier.                                         *)
(***************************************************************************)
\* wasRetried: the value returned, and the map it leaves behind
wasRetried(map, carrier) == map[carrier] > 0

wasRetriedUpdate(map, carrier) == [map EXCEPT ![carrier] = @ + 1]

\* BudgetSpent with > for >=
BudgetSpentOffByOne(attempt) == attempt > maxRetries

\* the guard at the head of retryWithBackoff
BudgetSpent(attempt) == attempt >= maxRetries

\* a backoff that grows by one second per attempt
backoffMsLinear(attempt) == (attempt + 1) * 1000

\* 2^attempt seconds, in milliseconds
backoffMs(attempt) == (2 ^ attempt) * 1000

\* frames holds the attempt of every open retryWithBackoff chain of the
\* carrier, innermost last.  retryWithBackoff(frames) is the call that has just
\* been entered with attempt Last(frames); Throws(frames, error) is a rejection
\* of fetchCarrierRate reaching the chains in frames.
RECURSIVE retryWithBackoff(_, _), Throws(_, _, _)
\* retryWithBackoff that awaits for good once the budget is spent
retryWithBackoffStalls(carrier, frames) ==
  IF BudgetSpent(frames[Len(frames)])
  THEN [pc |-> "stalled", stack |-> frames, reason |-> NoReason]
  ELSE [pc |-> "backoff", stack |-> frames, reason |-> NoReason]

retryWithBackoff(carrier, frames) ==
  IF BudgetSpent(frames[Len(frames)])
  THEN Throws(carrier, SubSeq(frames, 1, Len(frames) - 1), RetriesExhausted(carrier))
  ELSE [pc |-> "backoff", stack |-> frames, reason |-> NoReason]

Throws(carrier, frames, error) ==
  IF frames = <<>>
  THEN [pc |-> "rejected", stack |-> <<>>, reason |-> error]
  ELSE retryWithBackoff(carrier, [frames EXCEPT ![Len(frames)] = @ + 1])

\* the catch block of fetchCarrierRate
Catch(carrier, frames, error, map) ==
  IF isRecoverableError(error) /\ ~wasRetried(map, carrier)
  THEN retryWithBackoff(carrier, Append(frames, 0))
  ELSE Throws(carrier, frames, error)

(***************************************************************************)
(* Actions.                                                                *)
(***************************************************************************)
\* fetchAllRates up to await Promise.all: the carriers are resolved and the
\* first fetchRates of every one of them is issued.  Further calls on the
\* instance are explored for a repeated request that names one carrier and no
\* fee option.
FetchAllRates(k, requested, options) ==
  LET effective == EffectiveCarriers(requested) IN
  /\ callState[k] = "idle"
  /\ \A j \in Calls : j < k => callState[j] # "idle"
  /\ k > 1 => /\ SingleCarrier(requested) /\ options = NoOptions
               /\ \A j \in Calls : j < k =>
                    request[j] = [carriers |-> requested, options |-> options]
  /\ callState' = [callState EXCEPT ![k] = "awaiting"]
  /\ request' = [request EXCEPT ![k] = [carriers |-> requested, options |-> options]]
  /\ carriers' = [carriers EXCEPT ![k] = effective]
  /\ pc' = [pc EXCEPT ![k] =
              [c \in CarrierNames |-> IF c \in Range(effective) THEN "fetching" ELSE "idle"]]
  /\ fetches' = [fetches EXCEPT ![k] =
              [c \in CarrierNames |-> IF c \in Range(effective) THEN 1 ELSE 0]]
  /\ UNCHANGED <<stack, result, retryMap, response, waits>>
  /\ UNCHANGED <<componentVars, adapterVars, formVars>>

\* AdapterResolves that hands the rates of a retry on as the adapter made them
AdapterResolvesUndecoratedRetry(k, c, rates) ==
  /\ pc[k][c] = "fetching"
  /\ pc' = [pc EXCEPT ![k][c] = "fulfilled"]
  /\ stack' = [stack EXCEPT ![k][c] = <<>>]
  /\ result' = [result EXCEPT ![k][c] =
                  Fulfilled(rates, IF fetches[k][c] > 1 THEN rates
                                   ELSE DecorateAll(rates, request[k].options))]
  /\ UNCHANGED <<callState, request, carriers, fetches, retryMap, response, waits>>
  /\ UNCHANGED <<componentVars, adapterVars, formVars>>

\* AdapterResolves that has to wait while a sibling carrier is in backoff
AdapterResolvesSerialized(k, c, rates) ==
  /\ pc[k][c] = "fetching"
  /\ \A sibling \in CarrierNames \ {c} : pc[k][sibling] # "backoff"
  /\ pc' = [pc EXCEPT ![k][c] = "fulfilled"]
  /\ stack' = [stack EXCEPT ![k][c] = <<>>]
  /\ result' = [result EXCEPT ![k][c] =
                  Fulfilled(rates, DecorateAll(rates, request[k].options))]
  /\ UNCHANGED <<callState, request, carriers, fetches, retryMap, response, waits>>
  /\ UNCHANGED <<componentVars, adapterVars, formVars>>

\* adapter.fetchRates resolves: fetchCarrierRate decorates and returns, and the
\* value passes through every open retryWithBackoff
AdapterResolves(k, c, rates) ==
  /\ pc[k][c] = "fetching"
  /\ pc' = [pc EXCEPT ![k][c] = "fulfilled"]
  /\ stack' = [stack EXCEPT ![k][c] = <<>>]
  /\ result' = [result EXCEPT ![k][c] =
                  Fulfilled(rates, DecorateAll(rates, request[k].options))]
  /\ UNCHANGED <<callState, request, carriers, fetches, retryMap, response, waits>>
  /\ UNCHANGED <<componentVars, adapterVars, formVars>>

\* adapter.fetchRates rejects: the catch block of fetchCarrierRate, and the
\* catch blocks of the retryWithBackoff chains around it
AdapterRejects(k, c, error) ==
  LET next == Catch(c, stack[k][c], error, retryMap) IN
  /\ pc[k][c] = "fetching"
  /\ retryMap' = IF isRecoverableError(error) THEN wasRetriedUpdate(retryMap, c)
                 ELSE retryMap
  /\ pc' = [pc EXCEPT ![k][c] = next.pc]
  /\ stack' = [stack EXCEPT ![k][c] = next.stack]
  /\ result' = [result EXCEPT ![k][c] =
                  IF next.pc = "rejected" THEN Rejected(next.reason) ELSE @]
  /\ UNCHANGED <<callState, request, carriers, fetches, response, waits>>
  /\ UNCHANGED <<componentVars, adapterVars, formVars>>

\* the timer of retryWithBackoff fires after backoffMs: fetchCarrierRate is
\* called again
BackoffElapses(k, c) ==
  /\ pc[k][c] = "backoff"
  /\ waits' = [waits EXCEPT ![k][c] = Append(@, backoffMs(stack[k][c][Len(stack[k][c])]))]
  /\ pc' = [pc EXCEPT ![k][c] = "fetching"]
  /\ fetches' = [fetches EXCEPT ![k][c] = @ + 1]
  /\ UNCHANGED <<callState, request, carriers, stack, result, retryMap, response>>
  /\ UNCHANGED <<componentVars, adapterVars, formVars>>

\* the promises fetchAllRates hands to Promise.all, in dispatch order
Promises(k) ==
  [i \in 1..Len(carriers[k]) |-> ThenTagged(result[k][carriers[k][i]], carriers[k][i])]

\* await Promise.all settles: fetchAllRates builds and returns its response,
\* or rejects when the await throws
Respond(k) ==
  LET joined == PromiseAll(Promises(k)) IN
  /\ callState[k] = "awaiting"
  /\ joined.status # "pending"
  /\ IF joined.status = "fulfilled"
     THEN /\ callState' = [callState EXCEPT ![k] = "returned"]
          /\ response' = [response EXCEPT ![k] =
                            [rates  |-> sortRates(MergeRates(joined.value)),
                             errors |-> MergeErrors(joined.value)]]
     ELSE /\ callState' = [callState EXCEPT ![k] = "raised"]
          /\ UNCHANGED response
  /\ UNCHANGED <<request, carriers, pc, stack, fetches, result, retryMap, waits>>
  /\ UNCHANGED <<componentVars, adapterVars, formVars>>

Next ==
  \/ \E k \in Calls, requested \in RequestedCarriers, options \in OptionChoices :
       FetchAllRates(k, requested, options)
  \/ \E k \in Calls, c \in CarrierNames : \E rates \in AdapterRates(c) :
       AdapterResolves(k, c, rates)
  \/ \E k \in Calls, c \in CarrierNames : \E error \in AdapterFailures(c) :
       AdapterRejects(k, c, error)
  \/ \E k \in Calls, c \in CarrierNames : BackoffElapses(k, c)
  \/ \E k \in Calls : Respond(k)

Spec == Init /\ [][Next]_vars

\* the adapter.fetchRates invocation of a carrier settles, one way or the other
FetchSettles(k, c) ==
  \/ \E rates \in AdapterRates(c) : AdapterResolves(k, c, rates)
  \/ \E error \in AdapterFailures(c) : AdapterRejects(k, c, error)

\* the calls followed to their end: the fee options play no part in the retry
\* chain, so the callers ask for none
LiveNext ==
  \/ \E k \in Calls, requested \in RequestedCarriers :
       FetchAllRates(k, requested, NoOptions)
  \/ \E k \in Calls, c \in CarrierNames : FetchSettles(k, c)
  \/ \E k \in Calls, c \in CarrierNames : BackoffElapses(k, c)
  \/ \E k \in Calls : Respond(k)

\* FetchSettles(k, c) and BackoffElapses(k, c) as they show on pc: the pending
\* fetchRates invocation settles, the running backoff timer fires.  No other
\* step moves the operation of a carrier.
Advances(k, c) ==
  /\ pc[k][c] \in {"fetching", "backoff"}
  /\ \E next \in {"fetching", "backoff", "fulfilled", "rejected"} \ {pc[k][c]} :
       pc' = [pc EXCEPT ![k][c] = next]
  /\ UNCHANGED callState

\* Respond(k) as it shows on callState: the continuation of await Promise.all
\* runs.  No other step takes a call out of "awaiting".
Resumes(k) ==
  /\ callState[k] = "awaiting"
  /\ PromiseAll(Promises(k)).status # "pending"
  /\ callState' = [callState EXCEPT ![k] =
                     IF PromiseAll(Promises(k)).status = "fulfilled" THEN "returned"
                     ELSE "raised"]
  /\ UNCHANGED pc

\* a step of a call that is under way
Progress ==
  \/ \E k \in Calls, c \in CarrierNames : Advances(k, c)
  \/ \E k \in Calls : Resumes(k)

\* every adapter.fetchRates invocation settles, every backoff timer fires and
\* the continuation of await Promise.all runs once the promise is settled:
\* while a call is under way the event loop does not stop
Fairness == WF_<<callState, pc>>(Progress)

LiveSpec == Init /\ [][LiveNext]_vars /\ Fairness

(***************************************************************************)
(* Rate components as objects (decorator.ts): a decorator holds a          *)
(* reference to the component it wraps.                                    *)
(***************************************************************************)
MaxObjects == 5

\* the variables of the rate service
serviceVars ==
  <<callState, request, carriers, pc, stack, fetches, result, retryMap, response, waits>>

\* a reference to an object of the heap
Ref(id) == [kind |-> "ref", id |-> id]

Objects == 1..Len(heap)

\* the objects the caller goes on with, to wrap them or to query them: the base
\* rate, or the outermost wrapper built last
Wrappable == {1, Len(heap)} \cap Objects

\* `new` that also adds the new decorator's fee to the amount the wrapped object holds
NewMutatingComponent(h, object) ==
  IF object.kind = "base" THEN Append(h, object)
  ELSE LET inner == h[object.component.id]
       IN  Append([h EXCEPT ![object.component.id] =
                     IF inner.kind = "base"
                     THEN [inner EXCEPT !.baseAmount = @ + object.fee.amount]
                     ELSE [inner EXCEPT !.fee.amount = @ + object.fee.amount]],
                  object)

\* `new`: the object is allocated, the objects it refers to are left as they are
New(h, object) == Append(h, object)

\* the component an object of the heap stands for, references followed
RECURSIVE Resolve(_, _)
Resolve(h, id) ==
  IF h[id].kind = "base" THEN h[id]
  ELSE [h[id] EXCEPT !.component = Resolve(h, h[id].component.id)]

\* what the three methods of RateComponent answer for an object
Report(h, id) ==
  [cost |-> getCost(Resolve(h, id)), fees |-> getFees(Resolve(h, id)),
   description |-> getDescription(Resolve(h, id))]

\* the wrappers of a chain built over a reference, allocated innermost first
RECURSIVE Allocate(_, _)
Allocate(h, component) ==
  IF component.kind = "ref" THEN [heap |-> h, ref |-> component.id]
  ELSE LET inner == Allocate(h, component.component)
           new   == New(inner.heap, [component EXCEPT !.component = Ref(inner.ref)])
       IN  [heap |-> new, ref |-> Len(new)]

\* amounts in cents
BaseAmounts == {1000, 10000}

\* declared values in cents: absent is a separate case, then negative, zero,
\* below the floor, around a rounding step, above the floor
DeclaredValues == {-100, 0, 10000, 25049, 25051, 50000, 100000}

\* the declared values passed to the constructor directly
ConstructorValues == {50000}

FixedFeeDecorators == {"SignatureDecorator", "FragileHandlingDecorator", "SaturdayDeliveryDecorator"}

\* the options applyFees is called with
AllOptions ==
  { Options(FALSE, 0, s, f, d) : s \in BOOLEAN, f \in BOOLEAN, d \in BOOLEAN }
  \cup { Options(TRUE, v, s, f, d) : v \in DeclaredValues,
                                    s \in BOOLEAN, f \in BOOLEAN, d \in BOOLEAN }

\* new BaseRate(baseAmount, serviceName)
NewBaseRate(baseAmount, serviceName) ==
  /\ heap = <<>>
  /\ heap' = New(heap, BaseRate(baseAmount, serviceName))
  /\ call' = [op |-> "BaseRate", baseAmount |-> baseAmount, result |-> Len(heap')]
  /\ UNCHANGED <<serviceVars, adapterVars, formVars>>

\* new InsuranceDecorator(component, declaredValue)
NewInsuranceDecorator(id, declaredValue) ==
  /\ id \in Wrappable
  /\ Len(heap) < MaxObjects
  /\ heap' = New(heap, InsuranceDecorator(Ref(id), declaredValue))
  /\ call' = [op |-> "InsuranceDecorator", component |-> id,
              declaredValue |-> declaredValue, result |-> Len(heap')]
  /\ UNCHANGED <<serviceVars, adapterVars, formVars>>

\* new SignatureDecorator(component), new FragileHandlingDecorator(component),
\* new SaturdayDeliveryDecorator(component)
NewFixedFeeDecorator(id, class) ==
  /\ id \in Wrappable
  /\ Len(heap) < MaxObjects
  /\ heap' = New(heap, CASE class = "SignatureDecorator" -> SignatureDecorator(Ref(id))
                         [] class = "FragileHandlingDecorator" -> FragileHandlingDecorator(Ref(id))
                         [] class = "SaturdayDeliveryDecorator" -> SaturdayDeliveryDecorator(Ref(id)))
  /\ call' = [op |-> class, component |-> id, result |-> Len(heap')]
  /\ UNCHANGED <<serviceVars, adapterVars, formVars>>

\* applyFees(baseRate, options) on a base rate just constructed
ApplyFees(id, options) ==
  /\ Objects = {id}
  /\ LET allocated == Allocate(heap, applyFees(Ref(id), options))
     IN  /\ Len(allocated.heap) <= MaxObjects
         /\ heap' = allocated.heap
         /\ call' = [op |-> "applyFees", component |-> id, options |-> options,
                     result |-> allocated.ref]
  /\ UNCHANGED <<serviceVars, adapterVars, formVars>>

\* component.getCost(), component.getFees(), component.getDescription()
Query(id) ==
  /\ id \in Wrappable
  /\ call' = [op |-> "query", component |-> id, report |-> Report(heap, id)]
  /\ UNCHANGED heap
  /\ UNCHANGED <<serviceVars, adapterVars, formVars>>

DecoratorNext ==
  \/ \E baseAmount \in BaseAmounts : NewBaseRate(baseAmount, "Standard")
  \/ \E id \in 1..MaxObjects, declaredValue \in ConstructorValues :
       NewInsuranceDecorator(id, declaredValue)
  \/ \E id \in 1..MaxObjects, class \in FixedFeeDecorators : NewFixedFeeDecorator(id, class)
  \/ \E id \in 1..MaxObjects, options \in AllOptions : ApplyFees(id, options)
  \/ \E id \in 1..MaxObjects : Query(id)

DecoratorSpec == Init /\ [][DecoratorNext]_vars

(***************************************************************************)
(* The carrier adapters (usps-adapter.ts, ups-adapter.ts): fetchRates as a *)
(* function of what the carrier's API call comes back with.                *)
(***************************************************************************)
MaxAlerts == 2

\* the catch block of every fetchRates: any thrown value becomes a CarrierError
\* of the adapter's carrier with recoverable = true
WrapError(carrier, error) ==
  CarrierError(carrier,
               IF error.kind \in {"Error", "CarrierError"} THEN error.message
               ELSE "Unknown error",
               TRUE)

\* what an API call may throw: a transport failure, a failure of another kind,
\* an authentication failure, a value that is not an Error
ApiErrors ==
  { Error("Request timeout"), Error("API Error"),
    Error("FedEx authentication failed: Unauthorized"), NonError }

FedExAlert(alertType, message) == [alertType |-> alertType, message |-> message]

AlertTypes == {"NOTE", "WARNING", "ERROR"}

FedExAlerts ==
  { FedExAlert(t, m) : t \in AlertTypes, m \in {"Invalid postal code", "Service delayed"} }

FedExRatedShipment(rateType, totalBaseCharge, totalNetCharge, surCharges) ==
  [rateType |-> rateType, totalBaseCharge |-> totalBaseCharge,
   totalNetCharge |-> totalNetCharge, surCharges |-> surCharges]

FedExRateReplyDetail(serviceName, days, ratedShipmentDetails) ==
  [serviceName |-> serviceName, days |-> days,
   ratedShipmentDetails |-> ratedShipmentDetails]

\* output.alerts is optional: hasAlerts tells whether it is defined
FedExRateResponse(hasAlerts, alerts, rateReplyDetails) ==
  [hasAlerts |-> hasAlerts, alerts |-> alerts, rateReplyDetails |-> rateReplyDetails]

\* FedExAdapter.getMockRates (amounts in cents)
getMockRates ==
  FedExRateResponse(FALSE, <<>>,
    << FedExRateReplyDetail("FedEx International Priority", 3,
         << FedExRatedShipment("ACCOUNT", 31235, 34515,
                               << Fee("FUEL", 3280, "Fuel Surcharge") >>) >>),
       FedExRateReplyDetail("FedEx Ground", 5,
         << FedExRatedShipment("ACCOUNT", 4525, 4875, <<>>) >>) >>)

\* the rated shipment details of one service, one per rate tier
RatedShipments ==
  { FedExRatedShipment("ACCOUNT", 4525, 4875, <<>>),
    FedExRatedShipment("LIST", 5000, 5400, << Fee("FUEL", 400, "Fuel Surcharge") >>),
    FedExRatedShipment("PREFERRED", 4800, 5100, <<>>) }

\* the non-empty lists of rated shipment details, the tiers in any order
RatedShipmentLists ==
  { l \in Arrangements(RatedShipments, Cardinality(RatedShipments)) :
      l # <<>> /\ NoRepetition(l) }

\* the rate details a FedEx API answer carries: none, or one service
FedExReplies ==
  { <<>> } \cup { << FedExRateReplyDetail("FedEx Ground", 5, l) >> : l \in RatedShipmentLists }

\* the answers of the FedEx rate API
FedExResponses ==
  { FedExRateResponse(FALSE, <<>>, details) : details \in FedExReplies }
  \cup { FedExRateResponse(TRUE, alerts, details) :
            alerts \in Arrangements(FedExAlerts, MaxAlerts), details \in FedExReplies }

\* FedExAdapter.callFedExAPI: demo credentials and every failure of the call
\* fall back to the mock rates
callFedExAPI(demoCredentials, api) ==
  IF demoCredentials THEN Fulfilled(<<>>, getMockRates)
  ELSE IF api.status = "rejected" THEN Fulfilled(<<>>, getMockRates)
  ELSE api

\* FedExAdapter.handleAlerts: throws for the first ERROR alert
handleAlerts(alerts) ==
  LET errors == SelectSeq(alerts, LAMBDA a : a.alertType = "ERROR")
  IN  IF Len(errors) > 0
      THEN Rejected(CarrierError("FedEx", errors[1].message, FALSE))
      ELSE Fulfilled(<<>>, <<>>)

\* selectRate that takes the first entry whatever its tier
selectRateFirst(details) == details[1]

\* FedExAdapter.selectRate: ACCOUNT, else LIST, else the first
selectRate(details) ==
  LET account == SelectSeq(details, LAMBDA d : d.rateType = "ACCOUNT")
      list    == SelectSeq(details, LAMBDA d : d.rateType = "LIST")
  IN  IF account # <<>> THEN account[1]
      ELSE IF list # <<>> THEN list[1] ELSE details[1]

mapSurchargeType(type) ==
  CASE type = "FUEL" -> "fuel"
    [] type = "RESIDENTIAL_DELIVERY" -> "other"
    [] type = "SIGNATURE_OPTION" -> "signature"
    [] type = "DECLARED_VALUE" -> "insurance"
    [] type = "SATURDAY_DELIVERY" -> "saturdayDelivery"
    [] OTHER -> "other"

adaptFedExRate(detail) ==
  LET rateDetail == selectRate(detail.ratedShipmentDetails)
  IN  ShippingRate("FedEx", detail.serviceName, rateDetail.totalBaseCharge,
                   [i \in 1..Len(rateDetail.surCharges) |->
                      Fee(mapSurchargeType(rateDetail.surCharges[i].type),
                          rateDetail.surCharges[i].amount,
                          rateDetail.surCharges[i].description)],
                   rateDetail.totalNetCharge, detail.days)

\* FedExAdapter.fetchRates
FedExAdapter_fetchRates(demoCredentials, api) ==
  LET apiResponse == callFedExAPI(demoCredentials, api)
      alerts   == IF apiResponse.value.hasAlerts
                  THEN handleAlerts(apiResponse.value.alerts)
                  ELSE Fulfilled(<<>>, <<>>)
  IN  IF apiResponse.status = "rejected" THEN Rejected(WrapError("FedEx", apiResponse.reason))
      ELSE IF alerts.status = "rejected" THEN Rejected(WrapError("FedEx", alerts.reason))
      ELSE Fulfilled(apiResponse.value.rateReplyDetails,
                     [i \in 1..Len(apiResponse.value.rateReplyDetails) |->
                        adaptFedExRate(apiResponse.value.rateReplyDetails[i])])

UPSRateResponse(errors, RateModels) == [errors |-> errors, RateModels |-> RateModels]

\* the answers of the UPS rate API: an errors entry, no rate model, one model
\* with the services "01" and "03" at a negotiated charge
UPSResponses ==
  { UPSRateResponse(errors, models) :
      errors \in { <<>>, <<"Invalid postal code">>, <<"Request timeout", "Invalid postal code">> },
      models \in { <<>>, << [Service |-> <<"01", "03">>, charge |-> 5550] >> } }

UPS_SERVICE_MAP(code) ==
  CASE code = "01" -> "UPS Next Day Air"
    [] code = "02" -> "UPS 2nd Day Air"
    [] code = "03" -> "UPS Ground"
    [] code = "14" -> "UPS Overnight"

UPSDays(code) ==
  CASE code = "01" -> 1 [] code = "02" -> 2 [] code = "03" -> 5 [] code = "14" -> 1

\* UPSAdapter.adaptUPSResponse: throws the message of the first errors entry
adaptUPSResponse(apiResponse) ==
  IF Len(apiResponse.errors) > 0 THEN Rejected(Error(apiResponse.errors[1]))
  ELSE IF Len(apiResponse.RateModels) = 0 THEN Fulfilled(<<>>, <<>>)
  ELSE Fulfilled(apiResponse.RateModels,
         Pushed([m \in 1..Len(apiResponse.RateModels) |->
                   [i \in 1..Len(apiResponse.RateModels[m].Service) |->
                      ShippingRate("UPS", UPS_SERVICE_MAP(apiResponse.RateModels[m].Service[i]),
                                   apiResponse.RateModels[m].charge, <<>>,
                                   apiResponse.RateModels[m].charge,
                                   UPSDays(apiResponse.RateModels[m].Service[i]))]]))

\* UPSAdapter.fetchRates
UPSAdapter_fetchRates(api) ==
  IF api.status = "rejected" THEN Rejected(WrapError("UPS", api.reason))
  ELSE LET adapted == adaptUPSResponse(api.value)
       IN  IF adapted.status = "rejected" THEN Rejected(WrapError("UPS", adapted.reason))
           ELSE adapted

USPS_SERVICE_MAP(service) ==
  CASE service = "PRIORITY_MAIL" -> "Priority Mail"
    [] service = "PRIORITY_MAIL_EXPRESS" -> "Priority Mail Express"
    [] service = "GROUND_ADVANTAGE" -> "Ground Advantage"
    [] service = "MEDIA_MAIL" -> "Media Mail"

USPSDays(service) ==
  CASE service = "PRIORITY_MAIL_EXPRESS" -> 1
    [] service = "PRIORITY_MAIL" -> 2
    [] service = "GROUND_ADVANTAGE" -> 5
    [] service = "MEDIA_MAIL" -> 7

\* the answers of the USPS rate API: the Postage list
USPSResponses ==
  { <<>>,
    << [MailService |-> "PRIORITY_MAIL", Rate |-> 2895],
       [MailService |-> "GROUND_ADVANTAGE", Rate |-> 1250] >> }

\* USPSAdapter.adaptUSPSResponse with transformToShippingRate
adaptUSPSResponse(postage) ==
  [i \in 1..Len(postage) |->
     ShippingRate("USPS", USPS_SERVICE_MAP(postage[i].MailService), postage[i].Rate,
                  <<>>, postage[i].Rate, USPSDays(postage[i].MailService))]

\* USPSAdapter.fetchRates
USPSAdapter_fetchRates(api) ==
  IF api.status = "rejected" THEN Rejected(WrapError("USPS", api.reason))
  ELSE Fulfilled(api.value, adaptUSPSResponse(api.value))

\* what an API call comes back with: an answer, or a thrown value
ApiOutcomes(responses) ==
  { Fulfilled(<<>>, r) : r \in responses } \cup { Rejected(e) : e \in ApiErrors }

\* new FedExAdapter().fetchRates(request); the adapters keep no state from
\* one invocation to the next, so one invocation is followed from the start
FedExFetch(demoCredentials, api) ==
  /\ fetched.carrier = "none"
  /\ fetched' = [carrier |-> "FedEx", demoCredentials |-> demoCredentials, api |-> api,
                 response |-> callFedExAPI(demoCredentials, api),
                 promise |-> FedExAdapter_fetchRates(demoCredentials, api)]
  /\ UNCHANGED <<serviceVars, componentVars, formVars>>

\* new UPSAdapter().fetchRates(request)
UPSFetch(api) ==
  /\ fetched.carrier = "none"
  /\ fetched' = [carrier |-> "UPS", api |-> api, promise |-> UPSAdapter_fetchRates(api)]
  /\ UNCHANGED <<serviceVars, componentVars, formVars>>

\* new USPSAdapter().fetchRates(request)
USPSFetch(api) ==
  /\ fetched.carrier = "none"
  /\ fetched' = [carrier |-> "USPS", api |-> api, promise |-> USPSAdapter_fetchRates(api)]
  /\ UNCHANGED <<serviceVars, componentVars, formVars>>

AdapterNext ==
  \/ \E demoCredentials \in BOOLEAN, api \in ApiOutcomes(FedExResponses) :
       FedExFetch(demoCredentials, api)
  \/ \E api \in ApiOutcomes(UPSResponses) : UPSFetch(api)
  \/ \E api \in ApiOutcomes(USPSResponses) : USPSFetch(api)

AdapterSpec == Init /\ [][AdapterNext]_vars

(***************************************************************************)
(* The form hook (hooks/usePackageForm.ts).  A callback reads `state` from *)
(* the render that created it and writes through setState(prev => ...),    *)
(* which React applies in order before the next render.  Nothing is saved  *)
(* in localStorage when the hook mounts.                                   *)
(***************************************************************************)
\* what the callers type into the package step
PackageUpdates ==
  { [type |-> "box",
     dimensions |-> [length |-> 10, width |-> 10, height |-> 10, unit |-> "in"],
     weight |-> [value |-> 5, unit |-> "lbs"]] }

\* what the callers type into the origin address
OriginUpdates ==
  { [street1 |-> "123 Main St", city |-> "Springfield", state |-> "il",
     postalCode |-> "62701", country |-> "us"] }

\* what the callers type into the destination address
DestinationUpdates ==
  { [street1 |-> "123 Main St", city |-> "Springfield", state |-> "il",
     postalCode |-> "62701", country |-> "us"],
    [postalCode |-> "ABCDE"] }

\* the arguments of goToStep
StepArguments == {0, 3, 5}

\* validateCurrentStep as the callback of the render `closure`, queued on `prev`
validateCurrentStep(closure, prev) ==
  LET stepErrors ==
        IF closure.currentStep = 1 THEN createPackageValidationChain(closure.package)
        ELSE IF closure.currentStep = 2
          THEN createAddressValidationChain(closure.originAddress)
               \o createAddressValidationChain(closure.destinationAddress)
        ELSE <<>>
  IN  [returned |-> stepErrors = <<>>,
       state |-> [prev EXCEPT
                    !.stepErrors.packageStep =
                       IF closure.currentStep = 1 THEN stepErrors ELSE @,
                    !.stepErrors.addressStep =
                       IF closure.currentStep = 2 THEN stepErrors ELSE @]]

\* nextStep as the callback of the render `closure`, queued on `prev`
nextStep(closure, prev) ==
  IF closure.currentStep >= 4 THEN [returned |-> FALSE, state |-> prev]
  ELSE LET validated == validateCurrentStep(closure, prev)
       IN  IF ~validated.returned THEN [returned |-> FALSE, state |-> validated.state]
           ELSE [returned |-> TRUE,
                 state |-> [validated.state EXCEPT !.currentStep = @ + 1]]

previousStep(prev) ==
  [prev EXCEPT !.currentStep = IF @ - 1 > 1 THEN @ - 1 ELSE 1]

goToStep(step, prev) ==
  IF step >= 1 /\ step <= 4 THEN [prev EXCEPT !.currentStep = step] ELSE prev

\* one more call in the running event handler
Called(op, returned) ==
  /\ batched < MaxBatched
  /\ batched' = batched + 1
  /\ formCall' = [op |-> op, returned |-> returned, step |-> formState.currentStep,
                  closure |-> rendered.currentStep,
                  passes |-> validateCurrentStep(formState, formState).returned]

UpdatePackage(pkg) ==
  /\ batched < MaxBatched
  /\ batched' = batched + 1
  /\ formState' = [formState EXCEPT !.package = Spread(@, pkg)]
  /\ UNCHANGED <<rendered, formCall>>
  /\ UNCHANGED <<serviceVars, componentVars, adapterVars>>

UpdateOriginAddress(address) ==
  /\ batched < MaxBatched
  /\ batched' = batched + 1
  /\ formState' = [formState EXCEPT !.originAddress = Spread(@, address)]
  /\ UNCHANGED <<rendered, formCall>>
  /\ UNCHANGED <<serviceVars, componentVars, adapterVars>>

UpdateDestinationAddress(address) ==
  /\ batched < MaxBatched
  /\ batched' = batched + 1
  /\ formState' = [formState EXCEPT !.destinationAddress = Spread(@, address)]
  /\ UNCHANGED <<rendered, formCall>>
  /\ UNCHANGED <<serviceVars, componentVars, adapterVars>>

ValidateCurrentStep ==
  /\ Called("validateCurrentStep", validateCurrentStep(rendered, formState).returned)
  /\ formState' = validateCurrentStep(rendered, formState).state
  /\ UNCHANGED rendered
  /\ UNCHANGED <<serviceVars, componentVars, adapterVars>>

NextStep ==
  /\ Called("nextStep", nextStep(rendered, formState).returned)
  /\ formState' = nextStep(rendered, formState).state
  /\ UNCHANGED rendered
  /\ UNCHANGED <<serviceVars, componentVars, adapterVars>>

PreviousStep ==
  /\ Called("previousStep", TRUE)
  /\ formState' = previousStep(formState)
  /\ UNCHANGED rendered
  /\ UNCHANGED <<serviceVars, componentVars, adapterVars>>

GoToStep(step) ==
  /\ Called("goToStep", TRUE)
  /\ formState' = goToStep(step, formState)
  /\ UNCHANGED rendered
  /\ UNCHANGED <<serviceVars, componentVars, adapterVars>>

Reset ==
  /\ Called("reset", TRUE)
  /\ formState' = initialFormState
  /\ UNCHANGED rendered
  /\ UNCHANGED <<serviceVars, componentVars, adapterVars>>

DiscardAndStart ==
  /\ Called("discardAndStart", TRUE)
  /\ formState' = initialFormState
  /\ UNCHANGED rendered
  /\ UNCHANGED <<serviceVars, componentVars, adapterVars>>

\* the event handler is over: React renders with the queued updates applied
Render ==
  /\ batched > 0
  /\ rendered' = Closure(formState)
  /\ batched' = 0
  /\ UNCHANGED <<formState, formCall>>
  /\ UNCHANGED <<serviceVars, componentVars, adapterVars>>

FormNext ==
  \/ \E pkg \in PackageUpdates : UpdatePackage(pkg)
  \/ \E address \in OriginUpdates : UpdateOriginAddress(address)
  \/ \E address \in DestinationUpdates : UpdateDestinationAddress(address)
  \/ ValidateCurrentStep
  \/ NextStep
  \/ PreviousStep
  \/ \E step \in StepArguments : GoToStep(step)
  \/ Reset
  \/ DiscardAndStart
  \/ Render

FormSpec == Init /\ [][FormNext]_vars

(***************************************************************************)
(* Properties.                                                             *)
(***************************************************************************)
Count(seq, x) == Cardinality({ i \in 1..Len(seq) : seq[i] = x })

IsPermutation(s, t) ==
  /\ Len(s) = Len(t)
  /\ \A x \in Range(s) \cup Range(t) : Count(s, x) = Count(t, x)

Settled(k, c) == result[k][c].status \in {"fulfilled", "rejected"}

\* the rates of a response that carry the carrier's name
RatesOf(k, c) == SelectSeq(response[k].rates, LAMBDA r : r.carrier = c)

\* the error entries of a response that name the carrier
ErrorsOf(k, c) == SelectSeq(response[k].errors, LAMBDA e : e.carrier = c)

\* C1: the rates of a returned response are exactly the decorated rates of the
\* carriers whose operation was fulfilled, each as often as its carrier
\* returned it, whatever happened to the other carriers.
C1_PartialFailureIsolation ==
  \A k \in Calls : callState[k] = "returned" =>
    /\ \A r \in Range(response[k].rates) : r.carrier \in Dispatched(k)
    /\ \A c \in Dispatched(k) :
         IsPermutation(RatesOf(k, c),
                       IF result[k][c].status = "fulfilled" THEN result[k][c].value
                       ELSE <<>>)

C1_Witness ==
  \E k \in Calls : \E c1, c2, c3 \in Dispatched(k) :
    /\ callState[k] = "returned"
    /\ result[k][c1].status = "rejected" /\ fetches[k][c1] = 1
    /\ result[k][c2].status = "rejected" /\ fetches[k][c2] > 1
    /\ result[k][c3].status = "fulfilled" /\ Len(result[k][c3].value) > 1
    /\ Len(response[k].rates) = Len(result[k][c3].value)

\* C2: in a returned response every dispatched carrier has either its rates and
\* no error entry, or exactly one error entry and no rate.
C2_RatesOrOneError ==
  \A k \in Calls : callState[k] = "returned" =>
    \A c \in Dispatched(k) :
      \/ /\ result[k][c].status = "fulfilled"
         /\ Len(ErrorsOf(k, c)) = 0
         /\ Len(RatesOf(k, c)) = Len(result[k][c].value)
      \/ /\ result[k][c].status = "rejected"
         /\ Len(ErrorsOf(k, c)) = 1
         /\ Len(RatesOf(k, c)) = 0

C2_Witness ==
  \E k \in Calls : \E c1, c2 \in Dispatched(k) :
    /\ callState[k] = "returned"
    /\ result[k][c1].status = "rejected" /\ result[k][c1].reason.kind # "CarrierError"
    /\ result[k][c2].status = "fulfilled" /\ result[k][c2].value = <<>>
    /\ Len(response[k].errors) = 1

\* C3: no carrier's adapter is invoked more than 1 + maxRetries times in a call.
C3_RetryBound ==
  \A k \in Calls, c \in CarrierNames : fetches[k][c] <= maxRetries + 1

C3_Witness ==
  \E k \in Calls, c \in CarrierNames :
    /\ fetches[k][c] = maxRetries + 1
    /\ result[k][c].status = "rejected"
    /\ result[k][c].reason = RetriesExhausted(c)

\* C4: an adapter failure that is classified non-recoverable ends the carrier's
\* operation at once: it is rejected in that very step, with no backoff and no
\* further fetch.
C4_NonRecoverableNeverRetried ==
  [][\A k \in Calls, c \in CarrierNames : \A error \in AdapterFailures(c) :
       (~isRecoverableError(error) /\ AdapterRejects(k, c, error))
         => /\ pc'[k][c] = "rejected"
            /\ result'[k][c].reason = error]_vars

\* C5: a carrier is reported either for a failure that is not recoverable or
\* after its full retry budget: never for a recoverable failure that was not
\* retried maxRetries times, whatever other calls did on the instance.
C5_RetryBudgetPerCall ==
  \A k \in Calls, c \in CarrierNames : result[k][c].status = "rejected" =>
    IF result[k][c].reason = RetriesExhausted(c)
    THEN fetches[k][c] = maxRetries + 1
    ELSE ~isRecoverableError(result[k][c].reason)

\* C6: the error entry of a failed carrier names the carrier, and its
\* recoverable flag is true when the retries were exhausted and otherwise is
\* the classification of the failure that ended the carrier's operation.
C6_ErrorEntryMatchesOutcome ==
  \A k \in Calls : callState[k] = "returned" =>
    \A c \in Dispatched(k) : result[k][c].status = "rejected" =>
      \E i \in 1..Len(response[k].errors) :
        /\ response[k].errors[i].carrier = c
        /\ response[k].errors[i].recoverable =
             IF result[k][c].reason = RetriesExhausted(c) THEN TRUE
             ELSE isRecoverableError(result[k][c].reason)

\* C7: a call has produced its response (or raised) only when every carrier it
\* dispatched has settled; none is still fetching or in backoff.
C7_FanIn ==
  \A k \in Calls : callState[k] \in {"returned", "raised"} =>
    \A c \in Dispatched(k) : pc[k][c] \in {"fulfilled", "rejected"}

C7_Witness ==
  \E k \in Calls : \E c1, c2 \in Dispatched(k) :
    /\ callState[k] = "returned"
    /\ fetches[k][c1] = maxRetries + 1 /\ pc[k][c1] = "fulfilled"
    /\ fetches[k][c2] = 1 /\ pc[k][c2] = "fulfilled"

\* C8: fetchAllRates never raises, and the errors of its response carry an
\* entry for every carrier that failed.
C8_NeverRaises ==
  \A k \in Calls :
    /\ callState[k] # "raised"
    /\ callState[k] = "returned" =>
         \A c \in Dispatched(k) : result[k][c].status = "rejected" =>
           \E i \in 1..Len(response[k].errors) : response[k].errors[i].carrier = c

C8_Witness ==
  \E k \in Calls :
    /\ callState[k] = "returned"
    /\ Cardinality(Dispatched(k)) = Cardinality(ConfiguredCarriers)
    /\ \A c \in Dispatched(k) : result[k][c].status = "rejected"
    /\ \E c \in Dispatched(k) : result[k][c].reason = RetriesExhausted(c)
    /\ \E c \in Dispatched(k) : ~isRecoverableError(result[k][c].reason)
                                 /\ fetches[k][c] = 1
    /\ response[k].rates = <<>>

\* the rates fetchAllRates merges, in dispatch order
Merged(k) ==
  Pushed([i \in 1..Len(carriers[k]) |->
            IF result[k][carriers[k][i]].status = "fulfilled"
            THEN result[k][carriers[k][i]].value ELSE <<>>])

\* C9: the rates of a returned response are a permutation of the merged rates,
\* in ascending order of total cost and, for equal totals, of delivery date.
C9_SortContract ==
  \A k \in Calls : callState[k] = "returned" =>
    LET rates == response[k].rates IN
    /\ IsPermutation(rates, Merged(k))
    /\ \A i \in 1..(Len(rates) - 1) :
         \/ rates[i].totalCost < rates[i + 1].totalCost
         \/ /\ rates[i].totalCost = rates[i + 1].totalCost
            /\ rates[i].estimatedDeliveryDate <= rates[i + 1].estimatedDeliveryDate

C9_Witness ==
  \E k \in Calls :
    /\ callState[k] = "returned"
    /\ response[k].rates # Merged(k)
    /\ \E i \in 1..(Len(response[k].rates) - 1) :
         /\ response[k].rates[i].totalCost = response[k].rates[i + 1].totalCost
         /\ response[k].rates[i].estimatedDeliveryDate
              < response[k].rates[i + 1].estimatedDeliveryDate
    /\ \E i, j \in 1..Len(Merged(k)) :
         /\ i < j
         /\ Merged(k)[i].totalCost = Merged(k)[j].totalCost
         /\ Merged(k)[i].estimatedDeliveryDate > Merged(k)[j].estimatedDeliveryDate

\* the carriers a call has issued a fetch for
FetchedFrom(k) == { c \in CarrierNames : fetches[k][c] > 0 }

\* C10: a call dispatches to the requested carriers that are configured, and to
\* every configured carrier when the request names no carriers.
C10_EffectiveCarrierSet ==
  \A k \in Calls : callState[k] # "idle" =>
    /\ Dispatched(k) = FetchedFrom(k)
    /\ FetchedFrom(k) =
         IF request[k].carriers = NoCarriers THEN ConfiguredCarriers
         ELSE Range(request[k].carriers) \cap ConfiguredCarriers

C10_Witness ==
  \E k \in Calls :
    /\ callState[k] # "idle"
    /\ request[k].carriers # NoCarriers
    /\ Range(request[k].carriers) \ ConfiguredCarriers # {}
    /\ FetchedFrom(k) # {}

\* C11: a carrier that is not configured is never fetched from, and every
\* carrier named by a rate or an error entry of a response was requested (or
\* defaulted), is configured and was dispatched to.
C11_ConfigurationAbsence ==
  \A k \in Calls :
    /\ \A c \in CarrierNames \ ConfiguredCarriers :
         fetches[k][c] = 0 /\ pc[k][c] = "idle"
    /\ callState[k] = "returned" =>
         \A c \in { r.carrier : r \in Range(response[k].rates) }
                  \cup { e.carrier : e \in Range(response[k].errors) } :
           c \in FetchedFrom(k) \cap ConfiguredCarriers

C11_Witness ==
  \E k \in Calls :
    /\ callState[k] = "returned"
    /\ request[k].carriers # NoCarriers
    /\ Len(request[k].carriers) = 2
    /\ Range(request[k].carriers) \ ConfiguredCarriers # {}
    /\ Len(response[k].errors) = 1

\* C12: a call whose effective carrier set is empty does not return an
\* ordinary response with no rates and no errors.
C12_EmptySetIsFatal ==
  \A k \in Calls :
    (callState[k] = "returned" /\ carriers[k] = <<>>)
      => ~(response[k].rates = <<>> /\ response[k].errors = <<>>)

RECURSIVE SumAmounts(_)
SumAmounts(fees) ==
  IF fees = <<>> THEN 0 ELSE Head(fees).amount + SumAmounts(Tail(fees))

\* C13: every rate of a returned response has totalCost = baseRate + the sum
\* of the amounts of its additionalFees.
C13_TotalPriceInvariant ==
  \A k \in Calls : callState[k] = "returned" =>
    \A i \in 1..Len(response[k].rates) :
      response[k].rates[i].totalCost =
        response[k].rates[i].baseRate + SumAmounts(response[k].rates[i].additionalFees)

C13_Witness ==
  \E k \in Calls :
    /\ callState[k] = "returned"
    /\ request[k].options # NoOptions
    /\ \E i \in 1..Len(response[k].rates) :
         /\ response[k].rates[i].carrier = "FedEx"
         /\ Len(response[k].rates[i].additionalFees) > 1
         /\ response[k].rates[i].totalCost > response[k].rates[i].baseRate
    /\ \E i \in 1..Len(response[k].rates) : response[k].rates[i].carrier # "FedEx"

\* the base rate at the bottom of an object's chain
RECURSIVE Root(_, _)
Root(h, id) == IF h[id].kind = "base" THEN id ELSE Root(h, h[id].component.id)

\* the fees an outer object reports after those of an inner object of its chain
NewFees(inner, outer) ==
  SubSeq(Report(heap, outer).fees, Len(Report(heap, inner).fees) + 1,
         Len(Report(heap, outer).fees))

\* C14: the cost every object reports is the cost of its base rate plus the sum
\* of the amounts of the fees it reports; two chains over the same base rate
\* whose fee lists are rearrangements of each other report the same cost.
C14_AdditivityAndOrderInvariance ==
  /\ \A id \in Objects :
       Report(heap, id).cost =
         Report(heap, Root(heap, id)).cost + SumAmounts(Report(heap, id).fees)
  /\ \A a, b \in Objects :
       (Root(heap, a) = Root(heap, b)
          /\ IsPermutation(Report(heap, a).fees, Report(heap, b).fees))
         => Report(heap, a).cost = Report(heap, b).cost

C14_Witness ==
  \E a, b \in Objects :
    /\ Root(heap, a) = Root(heap, b)
    /\ Len(Report(heap, a).fees) >= 2
    /\ IsPermutation(Report(heap, a).fees, Report(heap, b).fees)
    /\ Report(heap, a).fees # Report(heap, b).fees
    /\ Report(heap, a).cost > Report(heap, Root(heap, a)).cost

\* C15: every decorator reports the fees of the component it wraps, in their
\* order, followed by exactly one fee, the cost of that component plus the
\* amount of that fee, and the description of that component; the fee of a
\* Signature, Fragile or Saturday decorator is (signature, 5.50), (other, 10.00),
\* (saturdayDelivery, 15.00), that of an Insurance decorator has type insurance
\* and is 5.00 for a declared value of 500.
C15_OneFeePerDecorator ==
  /\ \A id \in Objects : heap[id].kind = "decorator" =>
       LET inner == Report(heap, heap[id].component.id)
           outer == Report(heap, id)
       IN  /\ Len(outer.fees) = Len(inner.fees) + 1
           /\ SubSeq(outer.fees, 1, Len(inner.fees)) = inner.fees
           /\ outer.cost = inner.cost + outer.fees[Len(outer.fees)].amount
           /\ outer.description = inner.description
  /\ call.op \in FixedFeeDecorators \cup {"InsuranceDecorator"} =>
       LET new == NewFees(call.component, call.result)
       IN  /\ Len(new) = 1
           /\ call.op = "SignatureDecorator" =>
                new[1].type = "signature" /\ new[1].amount = 550
           /\ call.op = "FragileHandlingDecorator" =>
                new[1].type = "other" /\ new[1].amount = 1000
           /\ call.op = "SaturdayDeliveryDecorator" =>
                new[1].type = "saturdayDelivery" /\ new[1].amount = 1500
           /\ call.op = "InsuranceDecorator" =>
                /\ new[1].type = "insurance"
                /\ call.declaredValue = 50000 => new[1].amount = 500

\* BaseRate(100) with Insurance(500) then Signature: 110.50, [insurance 5.00, signature 5.50]
C15_Witness ==
  /\ call.op = "SignatureDecorator"
  /\ heap[1] = BaseRate(10000, "Standard")
  /\ heap[call.component].kind = "decorator"
  /\ heap[call.component].component.id = 1
  /\ Report(heap, call.result).cost = 11050
  /\ Len(Report(heap, call.result).fees) = 2
  /\ Report(heap, call.result).fees[1].type = "insurance"
  /\ Report(heap, call.result).fees[1].amount = 500
  /\ Report(heap, call.result).fees[2].type = "signature"
  /\ Report(heap, call.result).fees[2].amount = 550
  /\ Report(heap, call.result).description = "Standard"

\* the fee types applyFees is to add for the options, in the canonical order
ExpectedFeeTypes(options) ==
  LET Active(type) ==
        CASE type = "insurance" -> options.hasDeclaredValue /\ options.declaredValue > 0
          [] type = "signature" -> options.signatureRequired
          [] type = "other" -> options.fragileHandling
          [] type = "saturdayDelivery" -> options.saturdayDeliveryRequired
  IN  SelectSeq(<<"insurance", "signature", "other", "saturdayDelivery">>, Active)

\* C16: the fees applyFees adds to a component are one per active flag, of the
\* types insurance, signature, other, saturdayDelivery in that order; with no
\* active flag the result reports the cost and fees of the component; with the
\* Saturday flag alone the only fee added is (saturdayDelivery, 15.00).
C16_ApplyFeesPolicy ==
  call.op = "applyFees" =>
    LET new == NewFees(call.component, call.result)
        inner == Report(heap, call.component)
        outer == Report(heap, call.result)
    IN  /\ [i \in 1..Len(new) |-> new[i].type] = ExpectedFeeTypes(call.options)
        /\ SubSeq(outer.fees, 1, Len(inner.fees)) = inner.fees
        /\ ExpectedFeeTypes(call.options) = <<>> => outer = inner
        /\ ExpectedFeeTypes(call.options) = <<"saturdayDelivery">> =>
             /\ new[1].amount = 1500
             /\ outer.cost = inner.cost + 1500

C16_Witness ==
  /\ call.op = "applyFees"
  /\ call.options.hasDeclaredValue /\ call.options.declaredValue > 0
  /\ call.options.signatureRequired
  /\ call.options.fragileHandling
  /\ call.options.saturdayDeliveryRequired
  /\ Len(Report(heap, call.result).fees) = 4
  /\ call.result # call.component

\* the amount (in cents) is max(declaredValue / 100, 2.50) to the nearest cent
IsInsuranceAmount(declaredValue, amount) ==
  /\ amount >= 250
  /\ 100 * amount - Max(declaredValue, 25000) \in -50..50

\* C17: the fee of an insurance decorator constructed for a positive declared
\* value is max(declaredValue / 100, 2.50) to two decimals, never below 2.50;
\* applyFees adds that fee when the declared value is present and positive and
\* no insurance fee when it is absent, zero or negative.
C17_InsuranceFloor ==
  /\ (call.op = "InsuranceDecorator" /\ call.declaredValue > 0) =>
       LET new == NewFees(call.component, call.result)
       IN  new[1].type = "insurance"
             /\ IsInsuranceAmount(call.declaredValue, new[1].amount)
  /\ call.op = "applyFees" =>
       LET new == NewFees(call.component, call.result)
           insurance == SelectSeq(new, LAMBDA fee : fee.type = "insurance")
       IN  IF call.options.hasDeclaredValue /\ call.options.declaredValue > 0
           THEN /\ Len(insurance) = 1
                /\ IsInsuranceAmount(call.options.declaredValue, insurance[1].amount)
                /\ call.options.declaredValue = 10000 => insurance[1].amount = 250
                /\ call.options.declaredValue = 50000 => insurance[1].amount = 500
                /\ call.options.declaredValue = 100000 => insurance[1].amount = 1000
           ELSE insurance = <<>>

C17_Witness ==
  /\ call.op = "applyFees"
  /\ call.options.hasDeclaredValue
  /\ call.options.declaredValue = 10000
  /\ NewFees(call.component, call.result)[1].amount = 250
  /\ Report(heap, call.result).cost = Report(heap, call.component).cost + 250

\* C18: no operation on rate components changes what an object constructed
\* before it reports as its cost, its fees and its description.
C18_DecorationIsPure ==
  [][ \A id \in Objects :
        /\ id <= Len(heap')
        /\ Report(heap', id) = Report(heap, id) ]_vars

C18_Witness ==
  /\ call.op = "query"
  /\ call.component = 1
  /\ Len(heap) >= 3
  /\ heap[Len(heap)].component.id # 1
  /\ call.report = [cost |-> heap[1].baseAmount, fees |-> <<>>,
                    description |-> heap[1].serviceName]

\* C19: a FedEx response with an alert of type ERROR makes fetchRates reject
\* with a CarrierError whose recoverable flag is false; a response whose
\* alerts are only WARNING or NOTE does not make it reject.
C19_ErrorAlertIsNonRecoverable ==
  (fetched.carrier = "FedEx" /\ fetched.response.value.hasAlerts) =>
    IF \E a \in Range(fetched.response.value.alerts) : a.alertType = "ERROR"
    THEN /\ fetched.promise.status = "rejected"
         /\ fetched.promise.reason.kind = "CarrierError"
         /\ ~fetched.promise.reason.recoverable
    ELSE fetched.promise.status = "fulfilled"

\* C20: the failure an adapter's fetchRates rejects with is classified
\* recoverable by the orchestrator exactly when its message is transport-level
\* (timeout, connection refused, DNS not found, network).
C20_RecoverableIffTransport ==
  (fetched.carrier # "none" /\ fetched.promise.status = "rejected") =>
    (isRecoverableError(fetched.promise.reason)
       <=> LowerCaseIncludes(fetched.promise.reason.message) # {})

\* C21: a live FedEx call (credentials that are not the placeholder ones) that
\* fails makes fetchRates reject with a CarrierError, and the mock rates are
\* answered only with placeholder credentials.
C21_LiveFailureFails ==
  (fetched.carrier = "FedEx" /\ ~fetched.demoCredentials) =>
    /\ fetched.api.status = "rejected" =>
         /\ fetched.promise.status = "rejected"
         /\ fetched.promise.reason.kind = "CarrierError"
    /\ fetched.response.value = getMockRates => fetched.api.status # "rejected"

\* the tier selectRate is to choose from a list of rated shipment details
ExpectedTier(details) ==
  IF \E d \in Range(details) : d.rateType = "ACCOUNT" THEN "ACCOUNT"
  ELSE IF \E d \in Range(details) : d.rateType = "LIST" THEN "LIST"
  ELSE details[1].rateType

\* C22: the rate adapted from a service's non-empty list of rated shipment
\* details carries the charges of the ACCOUNT entry if there is one, else of
\* the LIST entry if there is one, else of the first entry, wherever the
\* entries stand in the list.
C22_RateTierSelection ==
  (fetched.carrier = "FedEx" /\ fetched.promise.status = "fulfilled") =>
    \A i \in 1..Len(fetched.response.value.rateReplyDetails) :
      LET details == fetched.response.value.rateReplyDetails[i].ratedShipmentDetails
          rate    == fetched.promise.value[i]
      IN  /\ \E d \in Range(details) :
               /\ d.rateType = ExpectedTier(details)
               /\ rate.baseRate = d.totalBaseCharge
               /\ rate.totalCost = d.totalNetCharge
               /\ Len(rate.additionalFees) = Len(d.surCharges)
          /\ (\A d \in Range(details) : d.rateType \notin {"ACCOUNT", "LIST"}) =>
               rate.baseRate = details[1].totalBaseCharge

C22_Witness ==
  /\ fetched.carrier = "FedEx"
  /\ fetched.promise.status = "fulfilled"
  /\ ~fetched.demoCredentials
  /\ Len(fetched.response.value.rateReplyDetails) = 1
  /\ LET details == fetched.response.value.rateReplyDetails[1].ratedShipmentDetails
     IN  /\ Len(details) = 3
         /\ details[1].rateType = "PREFERRED"
         /\ details[2].rateType = "LIST"
         /\ details[3].rateType = "ACCOUNT"
         /\ fetched.promise.value[1].baseRate = details[3].totalBaseCharge

\* C23: the fetches of a carrier after the first are as many as the backoff
\* waits made for it, the wait before the retry with attempt index i - 1 is
\* 2^(i-1) seconds (1 s, 2 s, 4 s in that order), and the attempt of the chain
\* in backoff or in a retried fetch is the number of waits already made.
C23_BackoffSchedule ==
  \A k \in Calls, c \in CarrierNames :
    /\ fetches[k][c] > 0 => Len(waits[k][c]) = fetches[k][c] - 1
    /\ Len(waits[k][c]) <= 3
    /\ \A i \in 1..Len(waits[k][c]) : waits[k][c][i] = 1000 * 2 ^ (i - 1)
    /\ pc[k][c] = "backoff" =>
         /\ Len(stack[k][c]) = 1
         /\ stack[k][c][1] = Len(waits[k][c])
    /\ (pc[k][c] = "fetching" /\ fetches[k][c] > 1) =>
         stack[k][c] = <<Len(waits[k][c]) - 1>>

C23_Witness ==
  \E k \in Calls, c \in CarrierNames :
    /\ waits[k][c] = <<1000, 2000, 4000>>
    /\ pc[k][c] = "fetching"
    /\ fetches[k][c] = 4

\* C24: while a call awaits Promise.all every carrier of its effective set has
\* had its first fetch issued; and while one carrier is in backoff, a sibling
\* that is fetching can resolve or reject, and a sibling in backoff can have
\* its timer fire.
C24_ConcurrentFanOut ==
  \A k \in Calls :
    /\ callState[k] = "awaiting" =>
         \A c \in Dispatched(k) : fetches[k][c] >= 1 /\ pc[k][c] # "idle"
    /\ \A c1, c2 \in Dispatched(k) :
         (c1 # c2 /\ pc[k][c1] = "backoff") =>
           /\ pc[k][c2] = "fetching" =>
                /\ \A rates \in AdapterRates(c2) : ENABLED AdapterResolves(k, c2, rates)
                /\ \A error \in AdapterFailures(c2) : ENABLED AdapterRejects(k, c2, error)
           /\ pc[k][c2] = "backoff" => ENABLED BackoffElapses(k, c2)

C24_Witness ==
  \E k \in Calls : \E c1, c2 \in Dispatched(k) :
    /\ callState[k] = "awaiting"
    /\ pc[k][c1] = "backoff" /\ fetches[k][c1] = 1
    /\ pc[k][c2] = "fulfilled" /\ fetches[k][c2] = 3

\* the place of a carrier in the dispatch order of a call
DispatchIndex(k, c) == CHOOSE i \in 1..Len(carriers[k]) : carriers[k][i] = c

\* C25: the response is a function of the per-carrier results alone: the rates
\* are the sorted merge in dispatch order, rates with equal total and equal
\* delivery date stand in dispatch order, the error entries stand in dispatch
\* order, and nothing is written to the response before the join.
C25_DeterministicMerge ==
  \A k \in Calls :
    IF callState[k] = "returned"
    THEN /\ response[k].rates = sortRates(Merged(k))
         /\ \A i, j \in 1..Len(response[k].rates) :
              (i < j /\ compareRates(response[k].rates[i], response[k].rates[j]) = 0) =>
                DispatchIndex(k, response[k].rates[i].carrier)
                  <= DispatchIndex(k, response[k].rates[j].carrier)
         /\ \A i, j \in 1..Len(response[k].errors) :
              i < j => DispatchIndex(k, response[k].errors[i].carrier)
                         < DispatchIndex(k, response[k].errors[j].carrier)
         /\ Len(response[k].errors) =
              Cardinality({ c \in Dispatched(k) : result[k][c].status = "rejected" })
    ELSE response[k] = NoResponse

C25_Witness ==
  \E k \in Calls :
    /\ callState[k] = "returned"
    /\ \E i \in 1..(Len(response[k].rates) - 1) :
         /\ compareRates(response[k].rates[i], response[k].rates[i + 1]) = 0
         /\ response[k].rates[i].carrier # response[k].rates[i + 1].carrier
    /\ Len(response[k].errors) = 1
    /\ \E c \in Dispatched(k) : fetches[k][c] > 1 /\ result[k][c].status = "fulfilled"

\* C26: starting from the initial form state, currentStep stays within 1..4
\* whatever calls of the step functions are made
C26_StepBounds == formState.currentStep \in 1..4

\* C27: nextStep returns true only when the validation of the step the form
\* is at passes (the package chain at step 1, both address chains at step 2)
C27_StepGating ==
  (formCall.op = "nextStep" /\ formCall.returned)
    => formCall.passes

\* C28: every rate of a response keeps the fees its adapter attached to it
\* (the FedEx surcharges) next to the fees added for the caller's options
C28_AdapterFeesKept ==
  \A k \in Calls, c \in CarrierNames :
    (callState[k] = "returned" /\ result[k][c].status = "fulfilled")
      => \A i \in 1..Len(result[k][c].raw) :
           \E j \in 1..Len(response[k].rates) :
             /\ response[k].rates[j].id = result[k][c].raw[i].id
             /\ Range(result[k][c].raw[i].additionalFees)
                  \subseteq Range(response[k].rates[j].additionalFees)

\* the types of the fees of a rate, in order
FeeTypes(rate) == [i \in 1..Len(rate.additionalFees) |-> rate.additionalFees[i].type]

\* C29: every rate of a response carries each fee type the caller asked for
\* once and no fee type twice, on whichever attempt its carrier succeeded; a
\* carrier that succeeded has every rate it returned in the response, once,
\* and no error entry
C29_DecoratedOnce ==
  \A k \in Calls : callState[k] = "returned" =>
    /\ \A i \in 1..Len(response[k].rates) :
         /\ \A type \in Range(ExpectedFeeTypes(request[k].options)) :
              Count(FeeTypes(response[k].rates[i]), type) = 1
         /\ NoRepetition(FeeTypes(response[k].rates[i]))
    /\ \A c \in CarrierNames : result[k][c].status = "fulfilled" =>
         /\ fetches[k][c] \in 1..(maxRetries + 1)
         /\ IsPermutation(RatesOf(k, c), result[k][c].value)
         /\ \A i \in 1..Len(result[k][c].raw) :
              Count([j \in 1..Len(response[k].rates) |-> response[k].rates[j].id],
                    result[k][c].raw[i].id) = 1
         /\ ErrorsOf(k, c) = <<>>

\* a carrier succeeds on its last retry, after three recoverable failures, for a
\* caller that asked for every fee
C29_Witness ==
  \E k \in Calls, c \in CarrierNames :
    /\ callState[k] = "returned"
    /\ result[k][c].status = "fulfilled"
    /\ fetches[k][c] = maxRetries + 1
    /\ Len(ExpectedFeeTypes(request[k].options)) = 4
    /\ RatesOf(k, c) # <<>>
    /\ \A i \in 1..Len(RatesOf(k, c)) : Len(RatesOf(k, c)[i].additionalFees) = 4

\* C30: when every fetchRates invocation and every backoff wait settles, every
\* fetchAllRates call returns a response, and the operation of every carrier
\* it dispatched ends fulfilled or rejected
Terminated ==
  \A k \in Calls :
    /\ callState[k] \in {"idle", "returned"}
    /\ \A c \in CarrierNames : pc[k][c] \in {"idle", "fulfilled", "rejected"}

C30_Termination == (~Terminated) ~> Terminated

\* a call has returned after one carrier used up its retries and another
\* succeeded on a retry
C30_Witness ==
  \E k \in Calls, c, d \in CarrierNames :
    /\ callState[k] = "returned"
    /\ pc[k][c] = "rejected" /\ fetches[k][c] = maxRetries + 1
    /\ pc[k][d] = "fulfilled" /\ fetches[k][d] > 1

====
